---- MODULE Spec2Model ----
(***************************************************************************)
(* Speed-Tracker: an Express/SQLite result store (src/server.ts) and the   *)
(* React measurement client (src/unnamed/part_000, the App component).     *)
(*                                                                         *)
(* Time is in milliseconds.  JavaScript numbers are modelled as values     *)
(* [t, n, d]: t = "num" is the rational n/d (d > 0), t = "inf" is          *)
(* Infinity and t = "nan" is NaN.  JSON values and SQLite cells are        *)
(* [t, v]: t = "num" carries the number in hundredths (the client rounds   *)
(* to two decimals before it submits), t = "null" is JSON null / SQL NULL, *)
(* t = "str" a non-numeric string, t = "undef" an absent key.              *)
(***************************************************************************)
EXTENDS Integers, Sequences, FiniteSets, TLC

VARIABLES
    \* ---- server (src/server.ts) ----
    rows,             \* table speedtests, in rowid order
    seq,              \* sqlite_sequence.seq of the AUTOINCREMENT key
    clock,            \* wall clock, ms
    resp,             \* last response of the persistence API
    created,          \* the records returned by POST /api/speedtests so far
    schema,           \* table speedtests in the database file: "none", "old"
                      \* (no upload_mbps column) or "current"
    serving,          \* the server process has started and is listening
    \* ---- client (App) ----
    tests,            \* useState tests
    isRunning,        \* useState isRunning, latest queued value
    rendered,         \* isRunning as captured by the committed render
    autoTestEnabled,  \* useState autoTestEnabled
    lastTestTime,     \* useState lastTestTime
    error,            \* useState error
    timerOn,          \* the interval of autoTestIntervalRef is live
    elapsed,          \* ms since that interval was set or last fired
    enabledAt,        \* clock when auto-test was last enabled
    runs,             \* the invocations of runSpeedTest that got past the guard
    history,          \* the fetchHistory call of the mount effect
    clearing,         \* a clearHistory call is awaiting its DELETE
    mounted,          \* the App component is mounted (no render has thrown)
    last              \* label of the last step taken

vars == <<rows, seq, clock, resp, created, schema, serving, tests, isRunning,
          rendered, autoTestEnabled, lastTestTime, error, timerOn, elapsed,
          enabledAt, runs, history, clearing, mounted, last>>

serverVars == <<rows, seq, resp, created, schema, serving>>
clientVars == <<tests, isRunning, rendered, autoTestEnabled, lastTestTime,
                error, timerOn, elapsed, enabledAt, runs, history, clearing,
                mounted>>

(***************************************************************************)
(* Bounds of the model.                                                    *)
(***************************************************************************)
MaxTicks == 3         \* time steps the clock may take
MaxRuns == 2          \* tests started over a behaviour
MaxCreates == 3       \* create requests of the store specification
ErrBodyBytes == 0     \* size of the body of an error-status response

(***************************************************************************)
(* Program constants.                                                      *)
(***************************************************************************)
Period == 30 * 60 * 1000
Limit == 100
PayloadBytes == 5 * 1024 * 1024
UploadBytes == 2 * 1024 * 1024

TimeStep == Period \div 2
\* what a request can come to: the transport rejects it, or it is answered with
\* an ok status or with an error status
Outcomes == {"reject", "ok", "err"}
\* probe durations (performance.now() differences), ms
Durations == {0, 500, 1000}
\* the inputs of the probes under Spec
TransportOutcomes == {"reject", "ok"}
TypicalDurations == {1000}

(***************************************************************************)
(* JavaScript arithmetic.                                                  *)
(***************************************************************************)
RECURSIVE GCD(_, _)
GCD(a, b) == IF b = 0 THEN a ELSE GCD(b, a % b)

Rat(n, d) == LET g == GCD(n, d) IN [t |-> "num", n |-> n \div g, d |-> d \div g]
Infinity == [t |-> "inf", n |-> 0, d |-> 1]
NaN == [t |-> "nan", n |-> 0, d |-> 1]

\* x / y for non-negative operands, y finite
JsDiv(x, y) ==
    IF x.t = "nan" THEN NaN
    ELSE IF x.t = "inf" THEN Infinity
    ELSE IF y.n = 0 THEN (IF x.n = 0 THEN NaN ELSE Infinity)
    ELSE LET g1 == GCD(x.n, y.n)
             g2 == GCD(y.d, x.d)
         IN  Rat((x.n \div g1) * (y.d \div g2), (x.d \div g2) * (y.n \div g1))

\* Number(x.toFixed(2)), in hundredths
ToFixed2(x) ==
    IF x.t = "num" THEN [t |-> "num", n |-> (200 * x.n + x.d) \div (2 * x.d), d |-> 100]
    ELSE x

\* the value JSON.stringify writes and express.json() reads back
JsonNumber(x) ==
    IF x.t = "num" THEN [t |-> "num", v |-> x.n] ELSE [t |-> "null", v |-> 0]

ThroughputDecimal(bytes, ms) ==
    LET durationInSeconds == Rat(ms, 1000)
        bitsLoaded == Rat(bytes * 8, 1)
        speedBps == JsDiv(bitsLoaded, durationInSeconds)
    IN  JsDiv(speedBps, Rat(1000 * 1000, 1))

\* bytes transferred in ms milliseconds, as Mbps
Throughput(bytes, ms) ==
    LET durationInSeconds == Rat(ms, 1000)
        bitsLoaded == Rat(bytes * 8, 1)
        speedBps == JsDiv(bitsLoaded, durationInSeconds)
    IN  JsDiv(speedBps, Rat(1024 * 1024, 1))

(***************************************************************************)
(* The store: table speedtests and its three statements.                   *)
(***************************************************************************)
Null == [t |-> "null", v |-> 0]
Undefined == [t |-> "undef", v |-> 0]
Num(v) == [t |-> "num", v |-> v]
Text == [t |-> "str", v |-> 0]

Max(a, b) == IF a >= b THEN a ELSE b

RECURSIVE MaxRowId(_)
MaxRowId(rs) == IF rs = <<>> THEN 0 ELSE Max(Head(rs).id, MaxRowId(Tail(rs)))

NextIdReused(rs, sq) == MaxRowId(rs) + 1

\* id INTEGER PRIMARY KEY AUTOINCREMENT
NextId(rs, sq) == Max(sq, MaxRowId(rs)) + 1

\* timestamp DATETIME DEFAULT CURRENT_TIMESTAMP: UTC, whole seconds
CurrentTimestamp(ms) == ms \div 1000

\* better-sqlite3 binds numbers, strings and null; undefined is a TypeError
Bindable(body) ==
    /\ body.download_mbps.t # "undef"
    /\ body.upload_mbps.t # "undef"
    /\ body.ping_ms.t # "undef"

InsertRow(body, rs, sq, ms) ==
    [id |-> NextId(rs, sq), timestamp |-> CurrentTimestamp(ms),
     download_mbps |-> body.download_mbps, upload_mbps |-> body.upload_mbps,
     ping_ms |-> body.ping_ms]

Take(s, n) == IF Len(s) <= n THEN s ELSE SubSeq(s, 1, n)

\* SELECT * FROM speedtests ORDER BY timestamp DESC LIMIT 100: every order of
\* the rows that descends by timestamp; rows of equal timestamp in any order
SelectRecent(rs) ==
    LET n == Len(rs)
        orders == {f \in [1..n -> 1..n] :
                      /\ \A i, j \in 1..n : i # j => f[i] # f[j]
                      /\ \A i, j \in 1..n :
                            i < j => rs[f[i]].timestamp >= rs[f[j]].timestamp}
    IN  {Take([i \in 1..n |-> rs[f[i]]], Limit) : f \in orders}

DeleteKeepsNewest(rs) == IF rs = <<>> THEN rs ELSE <<rs[Len(rs)]>>

\* DELETE FROM speedtests
DeleteAll(rs) == <<>>

Ok(body) == [status |-> 200, kind |-> "json", body |-> body]
ServerError == [status |-> 500, kind |-> "error", body |-> <<>>]
Plain == [status |-> 200, kind |-> "text", body |-> <<>>]

(***************************************************************************)
(* Initial state: the server has started on a new database file and the    *)
(* App component has mounted, its mount effect having called fetchHistory. *)
(***************************************************************************)
ClientInit ==
    /\ tests = <<>>
    /\ isRunning = FALSE
    /\ rendered = FALSE
    /\ autoTestEnabled = FALSE
    /\ lastTestTime = Null
    /\ error = "none"
    /\ timerOn = FALSE
    /\ elapsed = 0
    /\ enabledAt = 0
    /\ runs = <<>>
    /\ history = [pc |-> "sent", status |-> 0, data |-> <<>>]
    /\ clearing = FALSE
    /\ mounted = TRUE

Init ==
    /\ rows = <<>>
    /\ seq = 0
    /\ clock = 0
    /\ resp = Plain
    /\ created = <<>>
    /\ schema = "current"
    /\ serving = TRUE
    /\ last = "init"
    /\ ClientInit

(***************************************************************************)
(* Server handlers, as state changes of the store.                         *)
(***************************************************************************)
PostSpeedtestsUpsert(body) ==
    IF Bindable(body)
    THEN LET newTest == InsertRow(body, rows, seq, clock)
         IN  /\ rows' = IF rows = <<>> THEN <<newTest>>
                        ELSE [rows EXCEPT ![Len(rows)] = newTest]
             /\ seq' = newTest.id
             /\ resp' = Ok(<<newTest>>)
             /\ created' = Append(created, newTest)
             /\ UNCHANGED <<schema, serving>>
    ELSE /\ resp' = ServerError
         /\ UNCHANGED <<rows, seq, created, schema, serving>>

\* app.post('/api/speedtests')
PostSpeedtests(body) ==
    IF Bindable(body)
    THEN LET newTest == InsertRow(body, rows, seq, clock)
         IN  /\ rows' = Append(rows, newTest)
             /\ seq' = newTest.id
             /\ resp' = Ok(<<newTest>>)
             /\ created' = Append(created, newTest)
             /\ UNCHANGED <<schema, serving>>
    ELSE /\ resp' = ServerError
         /\ UNCHANGED <<rows, seq, created, schema, serving>>

\* app.get('/api/speedtests')
GetSpeedtests ==
    /\ \E r \in SelectRecent(rows) : resp' = Ok(r)
    /\ UNCHANGED <<rows, seq, created, schema, serving>>

\* app.delete('/api/speedtests')
DeleteSpeedtests ==
    /\ rows' = DeleteAll(rows)
    /\ resp' = [status |-> 200, kind |-> "success", body |-> <<>>]
    /\ UNCHANGED <<seq, created, schema, serving>>

(***************************************************************************)
(* The store on its own: any HTTP client issuing requests.                 *)
(***************************************************************************)
JsonValues == {Num(4000), Null, Text, Undefined}
Bodies ==
    {[download_mbps |-> d, upload_mbps |-> Num(3200), ping_ms |-> p] :
        d \in JsonValues, p \in {Num(500), Undefined}}

Create ==
    /\ Len(created) < MaxCreates
    /\ \E b \in Bodies : PostSpeedtests(b)
    /\ last' = "create"
    /\ UNCHANGED <<clock>>
    /\ UNCHANGED clientVars

List ==
    /\ GetSpeedtests
    /\ last' = "list"
    /\ UNCHANGED <<clock>>
    /\ UNCHANGED clientVars

Clear ==
    /\ DeleteSpeedtests
    /\ last' = "clear"
    /\ UNCHANGED <<clock>>
    /\ UNCHANGED clientVars

\* GET /api/ping, GET /api/payload, POST /api/upload
Probe ==
    /\ resp' = Plain
    /\ last' \in {"ping", "payload", "upload"}
    /\ UNCHANGED <<rows, seq, created, schema, serving, clock>>
    /\ UNCHANGED clientVars

StoreTick ==
    /\ clock < MaxTicks * 1000
    /\ clock' = clock + 1000
    /\ last' = "tick"
    /\ UNCHANGED serverVars
    /\ UNCHANGED clientVars

StoreNext == Create \/ List \/ Clear \/ Probe \/ StoreTick

StoreSpec == Init /\ [][StoreNext]_vars

(***************************************************************************)
(* Schema setup: the statements run when the server module is loaded,      *)
(* against whatever database file is there.                                *)
(***************************************************************************)
\* the upload_mbps cell of a row of a table that has no such column
NoColumn == [t |-> "nocol", v |-> 0]

\* CREATE TABLE IF NOT EXISTS speedtests (...)
CreateTableIfNotExists(sc) == IF sc = "none" THEN "current" ELSE sc

\* ALTER TABLE speedtests ADD COLUMN upload_mbps REAL fails with "duplicate
\* column name" on a table that has the column
AlterThrows(sc) == sc = "current"

\* the rows after the column is added: NULL in every existing row
AddColumn(rs) == [i \in 1..Len(rs) |-> [rs[i] EXCEPT !.upload_mbps = Null]]

Uncaught(thrown) == thrown

\* try { db.exec('ALTER TABLE ...') } catch (e) { }: nothing escapes
Escapes(thrown) == FALSE

SchemaSetupResult(sc, rs) ==
    LET made == CreateTableIfNotExists(sc)
    IN  IF AlterThrows(made)
        THEN [schema |-> made, rows |-> rs, error |-> Escapes(TRUE)]
        ELSE [schema |-> "current", rows |-> AddColumn(rs), error |-> FALSE]

\* the server process starts: schema setup, then startServer()
SchemaSetup ==
    /\ ~serving
    /\ LET r == SchemaSetupResult(schema, rows)
       IN  /\ schema' = r.schema
           /\ rows' = r.rows
           /\ serving' = ~r.error
           /\ last' = IF r.error THEN "schema-error" ELSE "schema"
    /\ UNCHANGED <<seq, clock, resp, created>>
    /\ UNCHANGED clientVars

\* the server process exits
Stop ==
    /\ serving
    /\ serving' = FALSE
    /\ last' = "stop"
    /\ UNCHANGED <<rows, seq, clock, resp, created, schema>>
    /\ UNCHANGED clientVars

StoredRow(id, upload) ==
    [id |-> id, timestamp |-> 0, download_mbps |-> Num(4000), upload_mbps |-> upload,
     ping_ms |-> Num(500)]

\* the database file found at the first start: none, one of an older
\* installation, or a current one
SchemaInit ==
    /\ \/ schema = "none" /\ rows = <<>>
       \/ schema = "old" /\ rows \in {<<>>, <<StoredRow(1, NoColumn)>>}
       \/ schema = "current" /\ rows \in {<<>>, <<StoredRow(1, Num(3200))>>}
    /\ seq = Len(rows)
    /\ clock = 0
    /\ resp = Plain
    /\ created = <<>>
    /\ serving = FALSE
    /\ last = "stopped"
    /\ ClientInit

SchemaNext ==
    \/ SchemaSetup
    \/ Stop
    \/ serving /\ Create
    \/ serving /\ Clear
    \/ serving /\ StoreTick

SchemaSpec == SchemaInit /\ [][SchemaNext]_vars

(***************************************************************************)
(* The client: the App component.                                          *)
(***************************************************************************)
\* new Date(timestamp + 'Z'): the UTC second as an instant in ms
ParseDate(ts) == [t |-> "date", v |-> ts * 1000]

NewRun(src) ==
    [pc |-> "ping", src |-> src, ping_ms |-> Rat(0, 1),
     blobSize |-> 0, downloadMs |-> 0, download_mbps |-> Rat(0, 1),
     uploadMs |-> 0, upload_mbps |-> Rat(0, 1),
     probeFailed |-> FALSE, result |-> "pending"]

InFlight(i) == runs[i].pc # "done"

\* the invocation has returned: its locals are gone
Returned(run, result, failed) ==
    [NewRun(run.src) EXCEPT !.pc = "done", !.result = result, !.probeFailed = failed]

EffectKeepsInterval(enabled) == TRUE

\* the auto-test effect: the cleanup clears the interval, the body sets a new
\* one exactly when auto-test is enabled
EffectSetsInterval(enabled) == enabled

\* the auto-test effect re-run after a commit that changed one of its
\* dependencies (autoTestEnabled, or runSpeedTest through isRunning)
AutoTestEffect(enabled) ==
    /\ timerOn' = EffectSetsInterval(enabled)
    /\ elapsed' = 0

\* if (isRunning) return;  -- isRunning is the value the callback closed over
Guard(running) == running

ToggleResetsRunning ==
    /\ mounted
    /\ autoTestEnabled' = ~autoTestEnabled
    /\ AutoTestEffect(~autoTestEnabled)
    /\ enabledAt' = IF autoTestEnabled THEN enabledAt ELSE clock
    /\ isRunning' = FALSE
    /\ last' = "toggle"
    /\ UNCHANGED <<clock, mounted, tests, rendered, lastTestTime, error, runs, history, clearing>>
    /\ UNCHANGED serverVars

\* onClick of the auto-test button; a click is rendered synchronously and
\* the effect runs with the commit
ToggleAutoTest ==
    /\ mounted
    /\ autoTestEnabled' = ~autoTestEnabled
    /\ AutoTestEffect(~autoTestEnabled)
    /\ enabledAt' = IF autoTestEnabled THEN enabledAt ELSE clock
    /\ last' = "toggle"
    /\ UNCHANGED <<clock, mounted, tests, isRunning, rendered, lastTestTime, error, runs,
                   history, clearing>>
    /\ UNCHANGED serverVars

\* onClick of the run button (disabled while the rendered isRunning is true):
\* runSpeedTest up to its first await, then the synchronous re-render
ClickRun ==
    /\ mounted
    /\ ~rendered
    /\ ~Guard(rendered)
    /\ Len(runs) < MaxRuns
    /\ runs' = Append(runs, NewRun("manual"))
    /\ isRunning' = TRUE
    /\ error' = "none"
    /\ rendered' = TRUE
    /\ IF autoTestEnabled THEN AutoTestEffect(TRUE) ELSE UNCHANGED <<timerOn, elapsed>>
    /\ last' = "click"
    /\ UNCHANGED <<clock, mounted, tests, autoTestEnabled, lastTestTime, enabledAt, history,
                   clearing>>
    /\ UNCHANGED serverVars

\* the interval callback: runSpeedTest of the render the effect last ran for;
\* its state updates are rendered later (Render)
TimerFire ==
    /\ timerOn
    /\ elapsed >= Period
    /\ elapsed' = elapsed - Period
    /\ IF Guard(rendered)
       THEN /\ last' = "timer-noop"
            /\ UNCHANGED <<runs, isRunning, error>>
       ELSE /\ Len(runs) < MaxRuns
            /\ runs' = Append(runs, NewRun("timer"))
            /\ isRunning' = TRUE
            /\ error' = "none"
            /\ last' = "timer"
    /\ UNCHANGED <<clock, mounted, tests, rendered, autoTestEnabled, lastTestTime, timerOn,
                   enabledAt, history, clearing>>
    /\ UNCHANGED serverVars

\* React commits the pending isRunning; runSpeedTest is a new callback, so the
\* auto-test effect is cleaned up and run again
Render ==
    /\ mounted
    /\ rendered # isRunning
    /\ rendered' = isRunning
    /\ IF autoTestEnabled THEN AutoTestEffect(TRUE) ELSE UNCHANGED <<timerOn, elapsed>>
    /\ last' = "render"
    /\ UNCHANGED <<clock, mounted, tests, isRunning, autoTestEnabled, lastTestTime, error,
                   enabledAt, runs, history, clearing>>
    /\ UNCHANGED serverVars

\* time passes; a due interval fires and a pending render commits first
Tick ==
    /\ clock < MaxTicks * TimeStep
    /\ ~(timerOn /\ elapsed >= Period)
    /\ mounted => rendered = isRunning
    /\ clock' = clock + TimeStep
    /\ elapsed' = IF timerOn THEN elapsed + TimeStep ELSE elapsed
    /\ last' = "tick"
    /\ UNCHANGED <<tests, isRunning, rendered, autoTestEnabled, lastTestTime, error,
                   timerOn, enabledAt, runs, history, clearing, mounted>>
    /\ UNCHANGED serverVars

\* a state setter called by an async continuation: no effect once the
\* component is unmounted
SetState(new, old) == IF mounted THEN new ELSE old

\* test.download_mbps.toFixed(2), test.ping_ms.toFixed(0) and the guarded
\* test.upload_mbps.toFixed(2) of the render: a TypeError on a value that is
\* not a number
RenderThrows(ts) ==
    \E i \in 1..Len(ts) :
        \/ ts[i].download_mbps.t # "num"
        \/ ts[i].ping_ms.t # "num"
        \/ ts[i].upload_mbps.t = "str"

\* the render of a new tests value: an exception thrown while rendering
\* unmounts the component, and the cleanup of the auto-test effect clears
\* the interval
Commit(ts) ==
    /\ mounted' = (mounted /\ ~RenderThrows(ts))
    /\ timerOn' = (timerOn /\ mounted /\ ~RenderThrows(ts))

\* catch (err) { setError(...) } finally { setIsRunning(false) }
Fail(i, inProbe) ==
    /\ runs' = [runs EXCEPT ![i] = Returned(@, "error", @.probeFailed \/ inProbe)]
    /\ error' = SetState("test", error)
    /\ isRunning' = SetState(FALSE, isRunning)

\* 1. Measure Ping: await fetch('/api/ping')
PingDone(i, O, D) ==
    /\ runs[i].pc = "ping"
    /\ \E o \in O, ms \in D :
          IF o = "reject"
          THEN Fail(i, TRUE)
          ELSE /\ runs' = [runs EXCEPT ![i].pc = "download",
                                       ![i].ping_ms = Rat(ms, 1),
                                       ![i].probeFailed = (o = "err")]
               /\ UNCHANGED <<error, isRunning>>
    /\ last' = "ping"
    /\ UNCHANGED <<clock, mounted, tests, rendered, autoTestEnabled, lastTestTime, timerOn,
                   elapsed, enabledAt, history, clearing>>
    /\ UNCHANGED serverVars

DownloadDoneUploadNotAwaited(i, O, D) ==
    /\ runs[i].pc = "download"
    /\ \E o \in O, ms \in D :
          IF o = "reject"
          THEN Fail(i, TRUE)
          ELSE LET size == IF o = "ok" THEN PayloadBytes ELSE ErrBodyBytes
               IN  /\ runs' = [runs EXCEPT ![i].pc = "save",
                                           ![i].blobSize = size,
                                           ![i].downloadMs = ms,
                                           ![i].download_mbps = Throughput(size, ms),
                                           ![i].upload_mbps = Throughput(UploadBytes, 0),
                                           ![i].probeFailed = @ \/ (o = "err")]
                   /\ UNCHANGED <<error, isRunning>>
    /\ last' = "download"
    /\ UNCHANGED <<clock, mounted, tests, rendered, autoTestEnabled, lastTestTime,
                   timerOn, elapsed, enabledAt, history, clearing>>
    /\ UNCHANGED serverVars

\* 2. Measure Download Speed: await fetch('/api/payload'); await res.blob()
DownloadDone(i, O, D) ==
    /\ runs[i].pc = "download"
    /\ \E o \in O, ms \in D :
          IF o = "reject"
          THEN Fail(i, TRUE)
          ELSE LET size == IF o = "ok" THEN PayloadBytes ELSE ErrBodyBytes
               IN  /\ runs' = [runs EXCEPT ![i].pc = "upload",
                                           ![i].blobSize = size,
                                           ![i].downloadMs = ms,
                                           ![i].download_mbps = Throughput(size, ms),
                                           ![i].probeFailed = @ \/ (o = "err")]
                   /\ UNCHANGED <<error, isRunning>>
    /\ last' = "download"
    /\ UNCHANGED <<clock, mounted, tests, rendered, autoTestEnabled, lastTestTime, timerOn,
                   elapsed, enabledAt, history, clearing>>
    /\ UNCHANGED serverVars

\* 3. Measure Upload Speed: await fetch('/api/upload'), then the POST of
\* step 4 is sent
UploadDone(i, O, D) ==
    /\ runs[i].pc = "upload"
    /\ \E o \in O, ms \in D :
          IF o = "reject"
          THEN Fail(i, TRUE)
          ELSE /\ runs' = [runs EXCEPT ![i].pc = "save",
                                       ![i].uploadMs = ms,
                                       ![i].upload_mbps = Throughput(UploadBytes, ms),
                                       ![i].probeFailed = @ \/ (o = "err")]
               /\ UNCHANGED <<error, isRunning>>
    /\ last' = "upload"
    /\ UNCHANGED <<clock, mounted, tests, rendered, autoTestEnabled, lastTestTime, timerOn,
                   elapsed, enabledAt, history, clearing>>
    /\ UNCHANGED serverVars

\* the body of the POST: JSON.stringify of the three rounded metrics
SaveBody(run) ==
    [download_mbps |-> JsonNumber(ToFixed2(run.download_mbps)),
     upload_mbps |-> JsonNumber(ToFixed2(run.upload_mbps)),
     ping_ms |-> JsonNumber(ToFixed2(run.ping_ms))]

\* 4. Save Result: the server handles the POST and the client the response
SaveDone(i, O) ==
    /\ runs[i].pc = "save"
    /\ \E o \in O :
          IF o = "ok"
          THEN /\ PostSpeedtests(SaveBody(runs[i]))
               /\ IF resp'.status = 200
                  THEN LET newTest == resp'.body[1]
                       IN  /\ tests' = SetState(Take(<<newTest>> \o tests, Limit), tests)
                           /\ lastTestTime' =
                                  SetState(ParseDate(newTest.timestamp), lastTestTime)
                           /\ runs' = [runs EXCEPT
                                          ![i] = Returned(@, "saved", @.probeFailed)]
                           /\ isRunning' = SetState(FALSE, isRunning)
                           /\ Commit(tests')
                           /\ UNCHANGED error
                  ELSE /\ Fail(i, FALSE)
                       /\ UNCHANGED <<tests, lastTestTime, mounted, timerOn>>
          ELSE /\ Fail(i, FALSE)
               /\ UNCHANGED <<tests, lastTestTime, mounted, timerOn>>
               /\ UNCHANGED serverVars
    /\ last' = "save"
    /\ UNCHANGED <<clock, rendered, autoTestEnabled, elapsed, enabledAt, history,
                   clearing>>

\* the server answers the GET of fetchHistory (or the request fails)
ServeHistory ==
    /\ history.pc = "sent"
    /\ \E o \in Outcomes :
          IF o = "ok"
          THEN /\ GetSpeedtests
               /\ history' = [pc |-> "replied", status |-> 200, data |-> resp'.body]
          ELSE /\ history' = [pc |-> "replied", status |-> IF o = "err" THEN 500 ELSE 0,
                              data |-> <<>>]
               /\ UNCHANGED serverVars
    /\ last' = "serve-history"
    /\ UNCHANGED <<clock, mounted, tests, isRunning, rendered, autoTestEnabled, lastTestTime,
                   error, timerOn, elapsed, enabledAt, runs, clearing>>

\* fetchHistory after its await
HistoryDone ==
    /\ history.pc = "replied"
    /\ history' = [history EXCEPT !.pc = "done"]
    /\ IF history.status = 200
       THEN /\ tests' = SetState(history.data, tests)
            /\ lastTestTime' = IF Len(history.data) > 0
                               THEN SetState(ParseDate(history.data[1].timestamp),
                                             lastTestTime)
                               ELSE lastTestTime
            /\ Commit(tests')
            /\ UNCHANGED error
       ELSE /\ error' = SetState("history", error)
            /\ UNCHANGED <<tests, lastTestTime, mounted, timerOn>>
    /\ last' = "history"
    /\ UNCHANGED <<clock, isRunning, rendered, autoTestEnabled, elapsed, enabledAt,
                   runs, clearing>>
    /\ UNCHANGED serverVars

\* onClick of the clear button (shown while tests is not empty), confirmed
ClickClear ==
    /\ mounted
    /\ tests # <<>>
    /\ ~clearing
    /\ clearing' = TRUE
    /\ last' = "click-clear"
    /\ UNCHANGED <<clock, mounted, tests, isRunning, rendered, autoTestEnabled, lastTestTime,
                   error, timerOn, elapsed, enabledAt, runs, history>>
    /\ UNCHANGED serverVars

\* clearHistory after its await: the response status is not looked at
ClearDone ==
    /\ clearing
    /\ clearing' = FALSE
    /\ \E o \in Outcomes :
          /\ IF o = "ok" THEN DeleteSpeedtests ELSE UNCHANGED serverVars
          /\ IF o = "reject"
             THEN /\ error' = SetState("clear", error)
                  /\ UNCHANGED <<tests, lastTestTime>>
             ELSE /\ tests' = SetState(<<>>, tests)
                  /\ lastTestTime' = SetState(Null, lastTestTime)
                  /\ UNCHANGED error
    /\ last' = "clear"
    /\ UNCHANGED <<clock, mounted, isRunning, rendered, autoTestEnabled, timerOn, elapsed,
                   enabledAt, runs, history>>

Next ==
    \/ ToggleAutoTest
    \/ ClickRun
    \/ TimerFire
    \/ Render
    \/ Tick
    \/ \E i \in 1..Len(runs) : PingDone(i, TransportOutcomes, TypicalDurations)
    \/ \E i \in 1..Len(runs) : DownloadDone(i, TransportOutcomes, TypicalDurations)
    \/ \E i \in 1..Len(runs) : UploadDone(i, TransportOutcomes, TypicalDurations)
    \/ \E i \in 1..Len(runs) : SaveDone(i, TransportOutcomes)
    \/ ServeHistory
    \/ HistoryDone
    \/ ClickClear
    \/ ClearDone

Spec == Init /\ [][Next]_vars

(***************************************************************************)
(* The measurement sequence on its own: manual tests, every probe outcome  *)
(* and duration.                                                           *)
(***************************************************************************)
MeasureNext ==
    \/ ClickRun
    \/ Render
    \/ \E i \in 1..Len(runs) : PingDone(i, Outcomes, Durations)
    \/ \E i \in 1..Len(runs) : DownloadDone(i, Outcomes, Durations)
    \/ \E i \in 1..Len(runs) : UploadDone(i, Outcomes, Durations)
    \/ \E i \in 1..Len(runs) : SaveDone(i, Outcomes)

MeasureSpec == Init /\ [][MeasureNext]_vars

(***************************************************************************)
(* Properties.                                                             *)
(***************************************************************************)
NewestFirst(rs) == [i \in 1..Len(rs) |-> rs[Len(rs) + 1 - i]]
Numeric(row) ==
    /\ row.download_mbps.t = "num"
    /\ row.upload_mbps.t = "num"
    /\ row.ping_ms.t = "num"
RunStarted == Len(runs') > Len(runs)

\* C1: at most one speed test is in flight at any time; a start request
\* issued while a test is in flight starts nothing.
C1_SingleInFlight ==
    Cardinality({i \in 1..Len(runs) : InFlight(i)}) <= 1

\* C2: a test one of whose probes was rejected or answered with an error
\* status has been aborted: it runs no later phase, the error message is set
\* by it and it has created no record.
C2_FailedProbeAborts ==
    \A i \in 1..Len(runs) :
        runs[i].probeFailed => runs[i].pc = "done" /\ runs[i].result = "error"

\* C3: no record whose download_mbps or upload_mbps is not a finite number is
\* ever created (a probe of zero duration makes the test fail).
C3_NoNonFiniteRecord ==
    \A i \in 1..Len(created) :
        created[i].download_mbps.t = "num" /\ created[i].upload_mbps.t = "num"

\* C4: over any sequence of creates and clears, every record returned by
\* create has an id strictly greater than the id of every record returned
\* before it, cleared ones included, and a timestamp not before theirs.
C4_IdsIncreaseTimestampsMonotone ==
    \A i, j \in 1..Len(created) :
        i < j => /\ created[i].id < created[j].id
                 /\ created[i].timestamp <= created[j].timestamp

\* C4 witness: a create has answered after a clear removed an earlier record.
C4_Witness ==
    /\ last = "create"
    /\ resp.status = 200
    /\ Len(created) >= 2
    /\ Len(rows) = 1

\* C5: the list query returns the min(n, 100) most recently created records,
\* newest first, also when records carry the same timestamp.
C5_ListNewestFirst ==
    (last = "list") => (resp.status = 200 /\ resp.body = Take(NewestFirst(rows), Limit))

\* C6: a create whose body lacks a metric or carries a non-numeric one is
\* rejected with a client-error status, and no record with a missing or
\* non-numeric metric is ever stored.
C6_MalformedCreateRejected ==
    /\ \A i \in 1..Len(rows) : Numeric(rows[i])
    /\ (last = "create" /\ resp.status # 200) => resp.status \in 400..499

\* C7: clear empties the store whatever it holds and answers success, the
\* store stays empty until the next create, and a list query of the empty
\* store answers the empty sequence with status 200.
C7_ListAfterClearEmpty ==
    [][/\ (last' = "clear" => rows' = <<>> /\ resp'.status = 200 /\ resp'.kind = "success")
       /\ (rows = <<>> /\ last' # "create" => rows' = <<>>)
       /\ (rows = <<>> /\ last' = "list" => resp' = Ok(<<>>))]_vars

\* C7 witness: a list query has answered after a clear that removed records.
C7_Witness ==
    /\ last = "list"
    /\ Len(created) > 0
    /\ rows = <<>>
    /\ resp = Ok(<<>>)

\* C8: a timer-initiated test starts only while auto-test is enabled, and not
\* before a whole period has passed since it was enabled; so none starts
\* between a disable and the next enable, and none after enable-then-disable
\* within the first period.
C8_DisabledNoTimerTest ==
    [][(RunStarted /\ runs'[Len(runs')].src = "timer")
          => (autoTestEnabled /\ autoTestEnabled' /\ clock >= enabledAt + Period)]_vars

\* C8 witness: auto-test was enabled, then disabled, a period has passed
\* since, and no timer-initiated test exists.
C8_Witness ==
    /\ ~autoTestEnabled
    /\ ~timerOn
    /\ enabledAt > 0
    /\ clock >= enabledAt + Period
    /\ \A i \in 1..Len(runs) : runs[i].src = "manual"

\* C9: while auto-test is enabled the interval stays in phase with the moment
\* of enabling: the time since the interval last fired (or was set) equals
\* the time since enabling modulo the period.
C9_StrictlyPeriodic ==
    (autoTestEnabled /\ timerOn) => (elapsed % Period = (clock - enabledAt) % Period)

\* C10: a toggle of auto-test changes only the auto-test flag and the timer:
\* the in-flight tests, the in-progress flag, the records, the error message
\* and the store are as before it.
C10_ToggleLeavesTest ==
    [][(autoTestEnabled' # autoTestEnabled)
          => UNCHANGED <<runs, isRunning, rendered, tests, lastTestTime, error,
                         rows, seq, created, history, clearing>>]_vars

\* C10 witness: auto-test has just been toggled while a test is in flight.
C10_Witness ==
    /\ last = "toggle"
    /\ \E i \in 1..Len(runs) : InFlight(i) /\ runs[i].pc # "ping"

\* C11: every step of the server leaves the stored records as they are, or
\* (create) appends one record and leaves the others as they are, or (clear)
\* removes all of them; list and the probe endpoints change nothing.
C11_AppendOnlyLog ==
    [][/\ \/ rows' = rows
          \/ /\ last' = "create"
             /\ Len(rows') = Len(rows) + 1
             /\ SubSeq(rows', 1, Len(rows)) = rows
          \/ /\ last' = "clear"
             /\ rows' = <<>>
       /\ (last' \in {"list", "ping", "payload", "upload"} => rows' = rows)]_vars

\* C11 witness: a create has appended to a store that holds a record created
\* after a clear.
C11_Witness ==
    /\ last = "create"
    /\ resp.status = 200
    /\ Len(rows) = 2
    /\ Len(created) = 3

\* x is (bytes * 8) / (ms / 1000) / 2^20 in lowest terms
EqualsFormula(x, bytes, ms) ==
    IF bytes % 1024 = 0
    THEN x = Rat((bytes \div 1024) * 8000, ms * 1024)
    ELSE x = Rat(bytes * 8000, ms * 1048576)

\* C12: for a probe of positive duration the throughput is
\* (bytes * 8) / seconds / 2^20, bytes being the size received (download) or
\* sent (upload); 5 MiB in 1 s is submitted as 40 and 2 MiB in 0.5 s as 32.
C12_ThroughputFormula ==
    \A i \in 1..Len(runs) :
        /\ (runs[i].pc \in {"upload", "save"} /\ runs[i].downloadMs > 0)
              => EqualsFormula(runs[i].download_mbps, runs[i].blobSize, runs[i].downloadMs)
        /\ (runs[i].pc = "save" /\ runs[i].uploadMs > 0)
              => EqualsFormula(runs[i].upload_mbps, UploadBytes, runs[i].uploadMs)
        /\ (runs[i].pc = "save" /\ runs[i].blobSize = 5 * 1048576
                /\ runs[i].downloadMs = 1000)
              => SaveBody(runs[i]).download_mbps = Num(4000)
        /\ (runs[i].pc = "save" /\ runs[i].uploadMs = 500)
              => SaveBody(runs[i]).upload_mbps = Num(3200)

\* C12 witness: a test has received 5 MiB in 1 s and sent 2 MiB in 0.5 s.
C12_Witness ==
    \E i \in 1..Len(runs) :
        /\ runs[i].pc = "save"
        /\ runs[i].blobSize = 5 * 1048576
        /\ runs[i].downloadMs = 1000
        /\ runs[i].uploadMs = 500

\* C13: schema setup raises no error and leaves a table with the
\* upload-speed column; on a store that already has the column it changes
\* neither schema nor records; on an older store it adds the column and keeps
\* every record (upload speed NULL); a second setup changes nothing more.
C13_SchemaSetupIdempotent ==
    [][(~serving /\ last' \in {"schema", "schema-error"}) =>
          /\ last' = "schema"
          /\ schema' = "current"
          /\ (schema = "current" => rows' = rows)
          /\ Len(rows') = Len(rows)
          /\ \A i \in 1..Len(rows) :
                rows'[i] = IF schema = "old"
                           THEN [rows[i] EXCEPT !.upload_mbps = Null]
                           ELSE rows[i]
          /\ SchemaSetupResult(schema', rows')
                = [schema |-> schema', rows |-> rows', error |-> FALSE]]_vars

\* C13 witness: setup has run again on a store that was migrated from an
\* older one and has since received a record.
C13_Witness ==
    /\ last = "schema"
    /\ Len(created) > 0
    /\ Len(rows) >= 2
    /\ rows[1].upload_mbps = Null

PhaseSteps ==
    {<<"ping", "download">>, <<"download", "upload">>, <<"upload", "save">>,
     <<"ping", "done">>, <<"download", "done">>, <<"upload", "done">>,
     <<"save", "done">>}

\* C14: a test starts with the ping probe; its phases follow one another in
\* the order ping, download, upload, submission, each begun by the step that
\* completes the one before (or the test ends); a record is created only by
\* a test that is in its submission phase, all three probes completed.
C14_PhasesInOrder ==
    [][/\ \A i \in 1..Len(runs) :
             \/ runs'[i].pc = runs[i].pc
             \/ <<runs[i].pc, runs'[i].pc>> \in PhaseSteps
       /\ RunStarted => runs'[Len(runs')].pc = "ping"
       /\ Len(created') > Len(created)
             => \E i \in 1..Len(runs) : runs[i].pc = "save" /\ runs'[i].pc = "done"]_vars

\* C14 witness: a test has gone through all four phases and saved its record.
C14_Witness ==
    /\ last = "save"
    /\ \E i \in 1..Len(runs) : runs[i].result = "saved"
    /\ Len(created) > 0

\* C15: once every started test has returned, whether it saved, failed in a
\* probe or failed in the submission, the client is idle: the in-progress flag
\* is false and the component is there to accept a new start request.
C15_GuardReleased ==
    (Len(runs) > 0 /\ \A i \in 1..Len(runs) : ~InFlight(i)) => (mounted /\ ~isRunning)

\* no client operation (history fetch, test, clear) is in flight
Idle ==
    /\ history.pc = "done"
    /\ ~clearing
    /\ \A i \in 1..Len(runs) : ~InFlight(i)

\* C16: whenever no client operation is in flight, the client's record list
\* is what the list query would return then.
C16_ListMatchesStore ==
    Idle => tests \in SelectRecent(rows)

\* C17: whenever no client operation is in flight, the last test time is the
\* timestamp of the first entry of the client's list, and it is unset
\* exactly when that list is empty.
C17_LastTestTimeFromLatest ==
    Idle => lastTestTime = IF tests = <<>> THEN Null ELSE ParseDate(tests[1].timestamp)

====
